---- MODULE Spec2Model ----
(***************************************************************************)
(* RSI cycle analyser (src/app.py): calculate_rsi, detect_rsi_crosses,     *)
(* create_cycles, the cycle colouring of create_interactive_plot and the   *)
(* analysis run of main.                                                   *)
(*                                                                         *)
(* Python indices are 0-based; a series s of the program is the TLA+       *)
(* sequence whose element i+1 is s.iloc[i] (see Iloc).  A float is a       *)
(* record [k, n, d]: k = "num" is the rational n/d in lowest terms,        *)
(* k = "inf" an infinity, k = "nan" a not-a-number.  Rounding of binary    *)
(* floating point is not modelled: arithmetic is exact.                    *)
(***************************************************************************)
EXTENDS Integers, Sequences, FiniteSets, TLC

VARIABLES pc, data, rsi_period, overbought, oversold, rsi, ohlc_avg,
          crosses, cycles, green_cycles, red_cycles, cycle_colors,
          win_rate, avg_cycle_length, message, called

vars == <<pc, data, rsi_period, overbought, oversold, rsi, ohlc_avg,
          crosses, cycles, green_cycles, red_cycles, cycle_colors,
          win_rate, avg_cycle_length, message, called>>

----------------------------------------------------------------------------
(* Bounds of the model *)

MaxLen == 7
MaxPeriod == 5
MaxRsiLen == 5
MaxCloseLen == 4
MaxClose == 4

(* Program constants: the ranges of the sidebar sliders *)

PeriodMin == 5
PeriodMax == 50
OverboughtMin == 60
OverboughtDefault == 70
OversoldMax == 40
OversoldDefault == 30

----------------------------------------------------------------------------
(* Floats *)

Abs(x) == IF x < 0 THEN -x ELSE x

RECURSIVE GCD(_, _)
GCD(a, b) == IF b = 0 THEN a ELSE GCD(b, a % b)

NaN == [k |-> "nan", n |-> 0, d |-> 1]
Inf == [k |-> "inf", n |-> 1, d |-> 1]

Rat(n, d) ==
    LET s == IF d < 0 THEN -1 ELSE 1
        g == GCD(Abs(n), Abs(d))
    IN [k |-> "num", n |-> (s * n) \div g, d |-> (s * d) \div g]

Num(x) == [k |-> "num", n |-> x, d |-> 1]

IsNum(a) == a.k = "num"
IsNaN(a) == a.k = "nan"

\* IEEE comparisons: any comparison with a NaN is false.
FGt(a, b) ==
    /\ ~IsNaN(a) /\ ~IsNaN(b)
    /\ IF IsNum(a) /\ IsNum(b) THEN a.n * b.d > b.n * a.d
       ELSE a.k = "inf" /\ b.k = "num"
FLt(a, b) == FGt(b, a)
FGe(a, b) ==
    /\ ~IsNaN(a) /\ ~IsNaN(b)
    /\ IF IsNum(a) /\ IsNum(b) THEN a.n * b.d >= b.n * a.d
       ELSE a.k = "inf"
FLe(a, b) == FGe(b, a)

FNeg(a) == IF IsNum(a) THEN Rat(-a.n, a.d) ELSE a

FAdd(a, b) ==
    IF IsNaN(a) \/ IsNaN(b) THEN NaN
    ELSE IF a.k = "inf" \/ b.k = "inf" THEN Inf
    ELSE Rat(a.n * b.d + b.n * a.d, a.d * b.d)

FSub(a, b) ==
    IF IsNaN(a) \/ IsNaN(b) THEN NaN
    ELSE IF a.k = "inf" /\ b.k = "inf" THEN NaN
    ELSE IF a.k = "inf" \/ b.k = "inf" THEN Inf
    ELSE Rat(a.n * b.d - b.n * a.d, a.d * b.d)

FMul(a, b) ==
    IF IsNaN(a) \/ IsNaN(b) THEN NaN
    ELSE IF a.k = "inf" \/ b.k = "inf" THEN Inf
    ELSE Rat(a.n * b.n, a.d * b.d)

\* Float division: x/0 is infinite, 0/0 and inf/inf are NaN, x/inf is 0.
\* The sign of a zero divisor only decides the sign of the infinity, and the
\* one use of an infinity (100 / (1 + rs)) yields a zero of either sign.
FDiv(a, b) ==
    IF IsNaN(a) \/ IsNaN(b) THEN NaN
    ELSE IF b.k = "inf" THEN (IF a.k = "inf" THEN NaN ELSE Num(0))
    ELSE IF a.k = "inf" THEN Inf
    ELSE IF b.n = 0 THEN (IF a.n = 0 THEN NaN ELSE Inf)
    ELSE Rat(a.n * b.d, a.d * b.n)

Iloc(s, i) == s[i + 1]

----------------------------------------------------------------------------
(* calculate_rsi *)

\* prices.diff(): the first entry is NaN.
diff(prices) ==
    [i \in 1..Len(prices) |->
        IF i = 1 THEN NaN ELSE FSub(prices[i], prices[i - 1])]

\* delta.where(delta > 0, 0): entries failing the test, a NaN included,
\* become 0.
where_gt0(delta) ==
    [i \in 1..Len(delta) |-> IF FGt(delta[i], Num(0)) THEN delta[i] ELSE Num(0)]

where_lt0(delta) ==
    [i \in 1..Len(delta) |-> IF FLt(delta[i], Num(0)) THEN delta[i] ELSE Num(0)]

neg(s) == [i \in 1..Len(s) |-> FNeg(s[i])]

RECURSIVE window_sum(_, _, _)
window_sum(s, lo, hi) ==
    IF lo > hi THEN Num(0) ELSE FAdd(s[lo], window_sum(s, lo + 1, hi))

\* s.rolling(window=period).mean(): min_periods is the window, so an entry
\* is NaN until `period` observations are in the window, none of them NaN.
rolling_mean(s, period) ==
    [i \in 1..Len(s) |->
        IF i < period THEN NaN
        ELSE FDiv(window_sum(s, i - period + 1, i), Num(period))]

\* Mutant: the ratio is taken the other way round.
rs_of_swapped(gain, loss) == [i \in 1..Len(gain) |-> FDiv(loss[i], gain[i])]

rs_of(gain, loss) == [i \in 1..Len(gain) |-> FDiv(gain[i], loss[i])]

rsi_of(rs) ==
    [i \in 1..Len(rs) |->
        FSub(Num(100), FDiv(Num(100), FAdd(Num(1), rs[i])))]

calculate_rsi(prices, period) ==
    LET delta == diff(prices)
        gain == rolling_mean(where_gt0(delta), period)
        loss == rolling_mean(neg(where_lt0(delta)), period)
        rs == rs_of(gain, loss)
    IN rsi_of(rs)

----------------------------------------------------------------------------
(* detect_rsi_crosses *)

\* Mutant: the previous sample must be strictly below the overbought level.
cross_at_strict(rsi_series, i, ob, os) ==
    LET current_rsi == Iloc(rsi_series, i)
        prev_rsi == Iloc(rsi_series, i - 1)
    IN IF FLt(prev_rsi, Num(ob)) /\ FGt(current_rsi, Num(ob))
       THEN <<[idx |-> i, type |-> "overbought", rsi |-> current_rsi]>>
       ELSE IF FGe(prev_rsi, Num(os)) /\ FLt(current_rsi, Num(os))
       THEN <<[idx |-> i, type |-> "oversold", rsi |-> current_rsi]>>
       ELSE <<>>

\* Mutant: an oversold event is recorded at the index of the previous sample.
cross_at_prev_index(rsi_series, i, ob, os) ==
    LET current_rsi == Iloc(rsi_series, i)
        prev_rsi == Iloc(rsi_series, i - 1)
    IN IF FLe(prev_rsi, Num(ob)) /\ FGt(current_rsi, Num(ob))
       THEN <<[idx |-> i, type |-> "overbought", rsi |-> current_rsi]>>
       ELSE IF FGe(prev_rsi, Num(os)) /\ FLt(current_rsi, Num(os))
       THEN <<[idx |-> i - 1, type |-> "oversold", rsi |-> current_rsi]>>
       ELSE <<>>

\* The body of the loop at index i: the events it appends.
cross_at(rsi_series, i, ob, os) ==
    LET current_rsi == Iloc(rsi_series, i)
        prev_rsi == Iloc(rsi_series, i - 1)
    IN IF FLe(prev_rsi, Num(ob)) /\ FGt(current_rsi, Num(ob))
       THEN <<[idx |-> i, type |-> "overbought", rsi |-> current_rsi]>>
       ELSE IF FGe(prev_rsi, Num(os)) /\ FLt(current_rsi, Num(os))
       THEN <<[idx |-> i, type |-> "oversold", rsi |-> current_rsi]>>
       ELSE <<>>

RECURSIVE detect_loop(_, _, _, _, _)
detect_loop(rsi_series, ob, os, i, acc) ==
    IF i >= Len(rsi_series) THEN acc
    ELSE detect_loop(rsi_series, ob, os, i + 1,
                     acc \o cross_at(rsi_series, i, ob, os))

detect_rsi_crosses(rsi_series, ob, os) ==
    detect_loop(rsi_series, ob, os, 1, <<>>)

----------------------------------------------------------------------------
(* calculate_ohlc_average *)

calculate_ohlc_average(row) ==
    FDiv(Num(row.Open + row.High + row.Low + row.Close), Num(4))

----------------------------------------------------------------------------
(* create_cycles *)

\* Mutant: a cycle ends on the next cross instead of right before it.
cycle_end_no_minus(crs, i, data_length) ==
    IF i < Len(crs) - 1 THEN Iloc(crs, i + 1).idx ELSE data_length - 1

\* Mutant: the last cycle ends at data_length instead of data_length - 1.
cycle_end_last(crs, i, data_length) ==
    IF i < Len(crs) - 1 THEN Iloc(crs, i + 1).idx - 1 ELSE data_length

cycle_end(crs, i, data_length) ==
    IF i < Len(crs) - 1 THEN Iloc(crs, i + 1).idx - 1 ELSE data_length - 1

create_cycles(crs, data_length) ==
    [j \in 1..Len(crs) |->
        [start |-> Iloc(crs, j - 1).idx,
         end |-> cycle_end(crs, j - 1, data_length),
         cross_type |-> Iloc(crs, j - 1).type,
         cross_rsi |-> Iloc(crs, j - 1).rsi]]

----------------------------------------------------------------------------
(* create_interactive_plot: the colour of a cycle *)

\* Mutant: a tie is coloured green.
cycle_color_ge(close, avg, cycle) ==
    LET cross_price == Iloc(avg, cycle.start)
        last_close == Iloc(close, cycle.end)
    IN IF FGe(last_close, cross_price) THEN "green" ELSE "red"

cycle_color(close, avg, cycle) ==
    LET cross_price == Iloc(avg, cycle.start)
        last_close == Iloc(close, cycle.end)
    IN IF FGt(last_close, cross_price) THEN "green" ELSE "red"

----------------------------------------------------------------------------
(* main: the metrics and the statistics *)

Column(d, f) == [i \in 1..Len(d) |-> Num(d[i][f])]

\* sum(1 for cycle in cycles if Close[end] > OHLC_Avg[start])
RECURSIVE count_green(_, _, _, _)
count_green(close, avg, cys, j) ==
    IF j > Len(cys) THEN 0
    ELSE (IF FGt(Iloc(close, cys[j].end), Iloc(avg, cys[j].start)) THEN 1 ELSE 0)
         + count_green(close, avg, cys, j + 1)

\* sum(cycle['end'] - cycle['start'] + 1 for cycle in cycles)
RECURSIVE sum_lengths(_, _)
sum_lengths(cys, j) ==
    IF j > Len(cys) THEN 0
    ELSE (cys[j].end - cys[j].start + 1) + sum_lengths(cys, j + 1)

win_rate_of(green, cys) == FMul(FDiv(Num(green), Num(Len(cys))), Num(100))

avg_cycle_length_of(cys) == FDiv(Num(sum_lengths(cys, 1)), Num(Len(cys)))

----------------------------------------------------------------------------
(* Inputs *)

Bar(o, h, l, c) == [Open |-> o, High |-> h, Low |-> l, Close |-> c]

\* A flat bar, a rising bar and a falling bar.
Bars == {Bar(1, 1, 1, 1), Bar(1, 2, 1, 2), Bar(2, 2, 1, 1)}

DataSets == UNION {[1..n -> Bars] : n \in 0..MaxLen}

Min(a, b) == IF a < b THEN a ELSE b

Periods == PeriodMin..Min(MaxPeriod, PeriodMax)
Overboughts == {OverboughtMin, OverboughtDefault}
Oversolds == {OversoldDefault, OversoldMax}

Unset ==
    /\ rsi = <<>> /\ ohlc_avg = <<>> /\ crosses = <<>> /\ cycles = <<>>
    /\ green_cycles = 0 /\ red_cycles = 0 /\ cycle_colors = <<>>
    /\ win_rate = NaN /\ avg_cycle_length = NaN
    /\ message = "" /\ called = {}

----------------------------------------------------------------------------
(* main: one analysis run, from the button to the last metric *)

Init ==
    /\ pc = "button"
    /\ data = <<>>
    /\ rsi_period \in Periods
    /\ overbought \in Overboughts
    /\ oversold \in Oversolds
    /\ Unset

\* ticker.history returns a table; an empty one ends the run with an error.
Download ==
    /\ pc = "button"
    /\ \E d \in DataSets :
        /\ data' = d
        /\ IF d = <<>>
           THEN pc' = "done" /\ message' = "error_no_data"
           ELSE pc' = "indicators" /\ message' = message
    /\ UNCHANGED <<rsi_period, overbought, oversold, rsi, ohlc_avg, crosses,
                   cycles, green_cycles, red_cycles, cycle_colors, win_rate,
                   avg_cycle_length, called>>

\* ticker.history raises: the except clause reports it.
DownloadFails ==
    /\ pc = "button"
    /\ pc' = "done"
    /\ message' = "error_exception"
    /\ UNCHANGED <<data, rsi_period, overbought, oversold, rsi, ohlc_avg,
                   crosses, cycles, green_cycles, red_cycles, cycle_colors,
                   win_rate, avg_cycle_length, called>>

CalculateIndicators ==
    /\ pc = "indicators"
    /\ rsi' = calculate_rsi(Column(data, "Close"), rsi_period)
    /\ ohlc_avg' = [i \in 1..Len(data) |-> calculate_ohlc_average(data[i])]
    /\ called' = called \cup {"calculate_rsi"}
    /\ pc' = "detect"
    /\ UNCHANGED <<data, rsi_period, overbought, oversold, crosses, cycles,
                   green_cycles, red_cycles, cycle_colors, win_rate,
                   avg_cycle_length, message>>

\* Mutant: the run goes on to build cycles when no cross was found.
DetectCrossesNoReturn ==
    /\ pc = "detect"
    /\ crosses' = detect_rsi_crosses(rsi, overbought, oversold)
    /\ called' = called \cup {"detect_rsi_crosses"}
    /\ pc' = "cycles"
    /\ UNCHANGED <<data, rsi_period, overbought, oversold, rsi, ohlc_avg,
                   cycles, green_cycles, red_cycles, cycle_colors, win_rate,
                   avg_cycle_length, message>>

DetectCrosses ==
    /\ pc = "detect"
    /\ crosses' = detect_rsi_crosses(rsi, overbought, oversold)
    /\ called' = called \cup {"detect_rsi_crosses"}
    /\ IF crosses' = <<>>
       THEN pc' = "done" /\ message' = "warning_no_crosses"
       ELSE pc' = "cycles" /\ message' = message
    /\ UNCHANGED <<data, rsi_period, overbought, oversold, rsi, ohlc_avg,
                   cycles, green_cycles, red_cycles, cycle_colors, win_rate,
                   avg_cycle_length>>

CreateCycles ==
    /\ pc = "cycles"
    /\ cycles' = create_cycles(crosses, Len(data))
    /\ called' = called \cup {"create_cycles"}
    /\ pc' = "metrics"
    /\ UNCHANGED <<data, rsi_period, overbought, oversold, rsi, ohlc_avg,
                   crosses, green_cycles, red_cycles, cycle_colors, win_rate,
                   avg_cycle_length, message>>

ShowMetrics ==
    /\ pc = "metrics"
    /\ green_cycles' = count_green(Column(data, "Close"), ohlc_avg, cycles, 1)
    /\ red_cycles' = Len(cycles) - green_cycles'
    /\ called' = called \cup {"metrics"}
    /\ pc' = "plot"
    /\ UNCHANGED <<data, rsi_period, overbought, oversold, rsi, ohlc_avg,
                   crosses, cycles, cycle_colors, win_rate, avg_cycle_length,
                   message>>

CreatePlot ==
    /\ pc = "plot"
    /\ cycle_colors' =
          [j \in 1..Len(cycles) |->
              cycle_color(Column(data, "Close"), ohlc_avg, cycles[j])]
    /\ called' = called \cup {"create_interactive_plot"}
    /\ pc' = "stats"
    /\ UNCHANGED <<data, rsi_period, overbought, oversold, rsi, ohlc_avg,
                   crosses, cycles, green_cycles, red_cycles, win_rate,
                   avg_cycle_length, message>>

\* The statistics block is entered only `if cycles:`.
ShowStats ==
    /\ pc = "stats"
    /\ IF cycles # <<>>
       THEN /\ win_rate' = win_rate_of(green_cycles, cycles)
            /\ avg_cycle_length' = avg_cycle_length_of(cycles)
            /\ called' = called \cup {"stats"}
       ELSE UNCHANGED <<win_rate, avg_cycle_length, called>>
    /\ pc' = "done"
    /\ UNCHANGED <<data, rsi_period, overbought, oversold, rsi, ohlc_avg,
                   crosses, cycles, green_cycles, red_cycles, cycle_colors,
                   message>>

Next ==
    \/ Download
    \/ DownloadFails
    \/ CalculateIndicators
    \/ DetectCrosses
    \/ CreateCycles
    \/ ShowMetrics
    \/ CreatePlot
    \/ ShowStats

Spec == Init /\ [][Next]_vars

----------------------------------------------------------------------------
(* detect_rsi_crosses and create_cycles called on any RSI series and any   *)
(* pair of thresholds                                                      *)

RsiValues == {NaN, Num(28), Num(35), Num(65), Num(68), Num(72)}
RsiSeriesSet == UNION {[1..n -> RsiValues] : n \in 0..MaxRsiLen}
Levels == {30, 68, 70}

InitCross ==
    /\ pc = "call_detect"
    /\ data = <<>>
    /\ rsi_period = PeriodMin
    /\ overbought \in Levels
    /\ oversold \in Levels
    /\ rsi \in RsiSeriesSet
    /\ ohlc_avg = <<>> /\ crosses = <<>> /\ cycles = <<>>
    /\ green_cycles = 0 /\ red_cycles = 0 /\ cycle_colors = <<>>
    /\ win_rate = NaN /\ avg_cycle_length = NaN
    /\ message = "" /\ called = {}

CallDetect ==
    /\ pc = "call_detect"
    /\ crosses' = detect_rsi_crosses(rsi, overbought, oversold)
    /\ called' = called \cup {"detect_rsi_crosses"}
    /\ pc' = "call_cycles"
    /\ UNCHANGED <<data, rsi_period, overbought, oversold, rsi, ohlc_avg,
                   cycles, green_cycles, red_cycles, cycle_colors, win_rate,
                   avg_cycle_length, message>>

CallCreateCycles ==
    /\ pc = "call_cycles"
    /\ cycles' = create_cycles(crosses, Len(rsi))
    /\ called' = called \cup {"create_cycles"}
    /\ pc' = "returned"
    /\ UNCHANGED <<data, rsi_period, overbought, oversold, rsi, ohlc_avg,
                   crosses, green_cycles, red_cycles, cycle_colors, win_rate,
                   avg_cycle_length, message>>

NextCross ==
    \/ CallDetect
    \/ CallCreateCycles

SpecCross == InitCross /\ [][NextCross]_vars

----------------------------------------------------------------------------
(* calculate_rsi called on any close series and any period *)

CloseSeriesSet == UNION {[1..n -> 1..MaxClose] : n \in 1..MaxCloseLen}

InitRsi ==
    /\ pc = "call_rsi"
    /\ \E c \in CloseSeriesSet :
          data = [i \in 1..Len(c) |-> Bar(c[i], c[i], c[i], c[i])]
    /\ rsi_period \in 1..MaxCloseLen
    /\ overbought = OverboughtDefault
    /\ oversold = OversoldDefault
    /\ Unset

CallCalculateRsi ==
    /\ pc = "call_rsi"
    /\ rsi' = calculate_rsi(Column(data, "Close"), rsi_period)
    /\ called' = called \cup {"calculate_rsi"}
    /\ pc' = "returned"
    /\ UNCHANGED <<data, rsi_period, overbought, oversold, ohlc_avg, crosses,
                   cycles, green_cycles, red_cycles, cycle_colors, win_rate,
                   avg_cycle_length, message>>

NextRsi == CallCalculateRsi

SpecRsi == InitRsi /\ [][NextRsi]_vars

----------------------------------------------------------------------------
(* Properties of detect_rsi_crosses and create_cycles (SpecCross)          *)

N == Len(rsi)
Detected == pc \in {"call_cycles", "returned"}
Defined(x) == x.k = "num"

\* x <= t, x < t, x >= t, x > t for a defined x = n/d and an integer t
LeLevel(x, t) == x.n <= t * x.d
LtLevel(x, t) == x.n < t * x.d
GeLevel(x, t) == x.n >= t * x.d
GtLevel(x, t) == x.n > t * x.d

Emitted(i, type) ==
    \E k \in DOMAIN crosses :
        /\ crosses[k].idx = i
        /\ crosses[k].type = type
        /\ crosses[k].rsi = Iloc(rsi, i)

BothDefined(i) == i >= 1 /\ Defined(Iloc(rsi, i - 1)) /\ Defined(Iloc(rsi, i))

UpThrough(i) ==
    /\ BothDefined(i)
    /\ LeLevel(Iloc(rsi, i - 1), overbought)
    /\ GtLevel(Iloc(rsi, i), overbought)

DownThrough(i) ==
    /\ BothDefined(i)
    /\ GeLevel(Iloc(rsi, i - 1), oversold)
    /\ LtLevel(Iloc(rsi, i), oversold)

\* C1: with oversold < overbought, an overbought event is emitted at index i
\* with rsi value RSI[i] iff RSI[i-1] and RSI[i] are defined,
\* RSI[i-1] <= overbought and RSI[i] > overbought; an oversold event iff both
\* are defined, RSI[i-1] >= oversold and RSI[i] < oversold; nothing is emitted
\* at index 0 or where RSI[i] or RSI[i-1] is undefined.
C1_CrossIff ==
    (Detected /\ oversold < overbought) =>
        /\ \A i \in 0..(N - 1) :
              /\ Emitted(i, "overbought") <=> UpThrough(i)
              /\ Emitted(i, "oversold") <=> DownThrough(i)
        /\ \A k \in DOMAIN crosses :
              /\ crosses[k].idx \in 1..(N - 1)
              /\ BothDefined(crosses[k].idx)
              /\ crosses[k].type \in {"overbought", "oversold"}
              /\ crosses[k].rsi = Iloc(rsi, crosses[k].idx)

\* An overbought event whose previous sample equals the level, an oversold
\* event, and a skipped position next to an undefined entry.
C1_Witness ==
    /\ Detected /\ oversold < overbought
    /\ \E i \in 1..(N - 1) :
          /\ Emitted(i, "overbought")
          /\ Iloc(rsi, i - 1) = Num(overbought)
    /\ \E i \in 1..(N - 1) : Emitted(i, "oversold")
    /\ \E i \in 1..(N - 1) : IsNaN(Iloc(rsi, i - 1)) /\ Defined(Iloc(rsi, i))

\* C2: for every pair of thresholds the indices of the returned events are
\* strictly increasing.
C2_StrictlyIncreasing ==
    Detected =>
        \A k \in 1..(Len(crosses) - 1) : crosses[k].idx < crosses[k + 1].idx

C2_Witness ==
    /\ Detected
    /\ overbought <= oversold
    /\ Len(crosses) >= 3

\* C3: create_cycles returns one cycle per cross, in order, starting at the
\* cross's index; start <= end, each cycle ends right before the next
\* starts, and the last ends at N-1.
C3_CyclesTile ==
    (pc = "returned" /\ crosses # <<>>) =>
        /\ Len(cycles) = Len(crosses)
        /\ \A k \in DOMAIN cycles :
              /\ cycles[k].start = crosses[k].idx
              /\ cycles[k].start <= cycles[k].end
        /\ \A k \in 1..(Len(cycles) - 1) :
              cycles[k].end + 1 = cycles[k + 1].start
        /\ cycles[Len(cycles)].end = N - 1

\* Three cycles, one of them a single bar.
C3_Witness ==
    /\ pc = "returned"
    /\ Len(cycles) >= 3
    /\ \E k \in DOMAIN cycles : cycles[k].start = cycles[k].end
    /\ \E k \in DOMAIN cycles : cycles[k].start < cycles[k].end

Scenario ==
    /\ pc = "returned"
    /\ rsi = <<Num(65), Num(72), Num(68), Num(28), Num(35)>>
    /\ overbought = 70
    /\ oversold = 30

ScenarioCrosses ==
    /\ Len(crosses) = 2
    /\ crosses[1].idx = 1 /\ crosses[1].type = "overbought"
    /\ crosses[2].idx = 3 /\ crosses[2].type = "oversold"

\* C5 as stated: the series [65, 72, 68, 28, 35] with levels 70 and 30 gives
\* an overbought event at 1, an oversold event at 3 and the cycles (0, 2)
\* and (3, 4).
C5_Original ==
    Scenario =>
        /\ ScenarioCrosses
        /\ Len(cycles) = 2
        /\ cycles[1].start = 0 /\ cycles[1].end = 2
        /\ cycles[2].start = 3 /\ cycles[2].end = 4

\* C5 as amended: the same events, and the cycles (1, 2) and (3, 4): the
\* first cycle starts at the first cross, not at index 0.
C5_Scenario ==
    Scenario =>
        /\ ScenarioCrosses
        /\ crosses[1].rsi = Num(72) /\ crosses[2].rsi = Num(28)
        /\ Len(cycles) = 2
        /\ cycles[1].start = 1 /\ cycles[1].end = 2
        /\ cycles[2].start = 3 /\ cycles[2].end = 4

C5_Witness == Scenario /\ Len(cycles) = 2

\* C6: when overbought <= oversold, cross detection fails with
\* InvalidParameter: no cross list is returned and no later stage runs.
C6_InvalidParameter ==
    (overbought <= oversold) =>
        /\ Detected => message = "InvalidParameter"
        /\ crosses = <<>>
        /\ "create_cycles" \notin called

CoveredBy(b) == {k \in DOMAIN cycles : cycles[k].start <= b /\ b <= cycles[k].end}

\* C10: the cycle lengths sum to N minus the index of the first cross; a bar
\* from the first cross on lies in exactly one cycle, an earlier bar in none;
\* the average cycle length is (N - first cross index) / number of cycles.
C10_LengthsSum ==
    (pc = "returned" /\ crosses # <<>>) =>
        /\ sum_lengths(cycles, 1) = N - crosses[1].idx
        /\ \A b \in 0..(N - 1) :
              Cardinality(CoveredBy(b)) = IF b >= crosses[1].idx THEN 1 ELSE 0
        /\ avg_cycle_length_of(cycles) = Rat(N - crosses[1].idx, Len(crosses))

\* Two cycles or more, the first cross after index 1, a fractional average.
C10_Witness ==
    /\ pc = "returned"
    /\ Len(cycles) >= 2
    /\ crosses[1].idx >= 2
    /\ avg_cycle_length_of(cycles).d > 1

----------------------------------------------------------------------------
(* Properties of calculate_rsi (SpecRsi)                                   *)

Closes == [i \in 1..Len(data) |-> data[i].Close]
Returned == pc = "returned"

StrictlyIncreasing(c) == \A i \in 1..(Len(c) - 1) : c[i] < c[i + 1]
StrictlyDecreasing(c) == \A i \in 1..(Len(c) - 1) : c[i] > c[i + 1]

\* The trailing window of `period` close-to-close changes ending at index i
\* (0-based, i >= period) holds a rise or a fall.
WindowMoves(i) ==
    \E j \in (i - rsi_period + 1)..i : Iloc(Closes, j) # Iloc(Closes, j - 1)

\* C7: for 0 < period < N the RSI series has length N, its entries at the
\* indices 0..period-1 are undefined, and an entry at index period or later
\* is defined whenever its window has a non-zero average gain or loss.
C7_FirstPeriodUndefined ==
    (Returned /\ 0 < rsi_period /\ rsi_period < Len(data)) =>
        /\ Len(rsi) = Len(data)
        /\ \A i \in 0..(rsi_period - 1) : ~Defined(Iloc(rsi, i))
        /\ \A i \in rsi_period..(Len(data) - 1) :
              WindowMoves(i) => Defined(Iloc(rsi, i))

\* C9: for 0 < period < N, every defined RSI entry of a strictly increasing
\* close series is 100, and of a strictly decreasing close series is 0.
C9_Monotone ==
    (Returned /\ 0 < rsi_period /\ rsi_period < Len(data)) =>
        /\ StrictlyIncreasing(Closes) =>
              \A i \in DOMAIN rsi : Defined(rsi[i]) => rsi[i] = Num(100)
        /\ StrictlyDecreasing(Closes) =>
              \A i \in DOMAIN rsi : Defined(rsi[i]) => rsi[i] = Num(0)

C9_Witness ==
    /\ Returned
    /\ Len(data) >= 4
    /\ rsi_period = 2
    /\ StrictlyIncreasing(Closes)
    /\ \E i \in DOMAIN rsi : Defined(rsi[i])
    /\ \E i \in DOMAIN rsi : ~Defined(rsi[i])

----------------------------------------------------------------------------
(* Properties of an analysis run (Spec)                                    *)

\* Close of the cycle's last bar > mean of Open, High, Low, Close of its
\* first bar, in integers.
Rises(cycle) ==
    LET first == Iloc(data, cycle.start)
        last == Iloc(data, cycle.end)
    IN 4 * last.Close > first.Open + first.High + first.Low + first.Close

Ties(cycle) ==
    LET first == Iloc(data, cycle.start)
        last == Iloc(data, cycle.end)
    IN 4 * last.Close = first.Open + first.High + first.Low + first.Close

\* C4: a cycle is green iff the Close at its end is strictly greater than the
\* mean of Open, High, Low, Close at its start, and red otherwise, a tie
\* included; the green count, the red count and the chart colours follow
\* this rule, and green count + red count = number of cycles.
C4_SignRule ==
    /\ "metrics" \in called =>
          /\ green_cycles = Cardinality({k \in DOMAIN cycles : Rises(cycles[k])})
          /\ red_cycles = Cardinality({k \in DOMAIN cycles : ~Rises(cycles[k])})
          /\ green_cycles + red_cycles = Len(cycles)
    /\ "create_interactive_plot" \in called =>
          /\ Len(cycle_colors) = Len(cycles)
          /\ \A k \in DOMAIN cycles :
                cycle_colors[k] = IF Rises(cycles[k]) THEN "green" ELSE "red"

\* A run with a green cycle and a tied cycle, which is red.
C4_Witness ==
    /\ pc = "done"
    /\ "create_interactive_plot" \in called
    /\ \E k \in DOMAIN cycles : Rises(cycles[k]) /\ cycle_colors[k] = "green"
    /\ \E k \in DOMAIN cycles : Ties(cycles[k]) /\ cycle_colors[k] = "red"
    /\ green_cycles = 1 /\ red_cycles = 1

\* C8: cycle building and the statistics are reached only after cross
\* detection returned a non-empty list; with zero crosses the run ends in
\* the no-crosses warning, create_cycles is never called, and the
\* statistics never divide by zero cycles.
C8_NoCrossesEndsRun ==
    /\ (pc \in {"cycles", "metrics", "plot", "stats"}
          \/ called \cap {"create_cycles", "metrics",
                          "create_interactive_plot", "stats"} # {}) =>
          /\ "detect_rsi_crosses" \in called
          /\ crosses # <<>>
    /\ ("detect_rsi_crosses" \in called /\ crosses = <<>>) =>
          /\ pc = "done"
          /\ message = "warning_no_crosses"
          /\ "create_cycles" \notin called
    /\ "stats" \in called => Len(cycles) > 0

\* A run whose RSI has defined entries and no cross.
C8_Witness ==
    /\ pc = "done"
    /\ message = "warning_no_crosses"
    /\ \E i \in DOMAIN rsi : Defined(rsi[i])
    /\ crosses = <<>>
    /\ cycles = <<>>

====
